---- MODULE Spec2Model ----
(***************************************************************************)
(* SMOTEENN (unbalanced_dataset/combine/smote_enn.py): over-sampling with  *)
(* SMOTE followed by cleaning with Edited Nearest Neighbours.              *)
(*                                                                         *)
(* The module models one SMOTEENN object: its construction (__init__),     *)
(* and its two methods fit and transform.  Each method call is one action. *)
(* The collaborators (check_X_y, BaseSampler, SMOTE,                       *)
(* EditedNearestNeighbours) are not part of smote_enn.py; they are         *)
(* modelled from the docstrings of smote_enn.py and from the glossary of   *)
(* the specification, and any of their calls may raise.                    *)
(***************************************************************************)
EXTENDS Integers, Sequences, FiniteSets, TLC

VARIABLES
    ctor,       \* the keyword arguments the caller gave to SMOTEENN(...)
    self,       \* the base sampler part of the object: its arguments and stats_c_
    sm,         \* self.sm : the arguments SMOTE was built with, and its stats_c_
    enn,        \* self.enn: the arguments ENN was built with, and its stats_c_
    op,         \* the method called last: "init", "fit" or "transform"
    given,      \* the (X, y) the last method was called with
    calls,      \* the calls the last method made, in order, with argument and result
    outcome,    \* how the last method ended: returned or raised, and where from
    ret_obj,    \* the object the last method returned ("self", "sm", "enn" or "none")
    ret_data,   \* the (X_resampled, y_resampled) the last method returned
    ncalls      \* the number of method calls made on the object so far

vars ==
    <<ctor, self, sm, enn, op, given, calls, outcome, ret_obj, ret_data, ncalls>>

-----------------------------------------------------------------------------
(* Bounds of the model. *)

MaxLen == 3         \* most samples in the X a caller passes
MaxLabel == 2       \* class labels are 0..MaxLabel
MaxKeywords == 2    \* most keyword arguments in a constructor call
MaxCalls == 3       \* most calls of fit and transform on one object

Labels == 0..MaxLabel

-----------------------------------------------------------------------------
(* Datasets.  X is a sequence of feature values (one feature per sample),  *)
(* y a sequence of labels.                                                 *)

NoData == [kind |-> "none", X |-> <<>>, y |-> <<>>]

\* The label sequences of length n a caller passes: the samples are grouped
\* by class and the classes are numbered in the order they appear.
Labellings(n) ==
    {ys \in [1..n -> Labels] :
        /\ n >= 1 => ys[1] = 0
        /\ \A i \in 1..(n - 1) : ys[i + 1] - ys[i] \in {0, 1}}

\* What a caller may pass: n <= MaxLen samples, the i-th at feature value i,
\* with a label for each sample or with the last label missing.
Inputs ==
    UNION {{[kind |-> "array_like", X |-> [i \in 1..n |-> i], y |-> ys] :
                ys \in Labellings(n) \cup (IF n >= 1 THEN Labellings(n - 1) ELSE {})} :
           n \in 0..MaxLen}

Counts(y) == [c \in Labels |-> Cardinality({i \in 1..Len(y) : y[i] = c})]

Present(st) == {c \in Labels : st[c] > 0}

\* min(stats_c_, key=stats_c_.get) and max(...): the under-represented and the
\* over-represented label, the first of equals.
MinC(st) ==
    CHOOSE c \in Present(st) :
        \A d \in Present(st) : st[c] < st[d] \/ (st[c] = st[d] /\ c <= d)

MajC(st) ==
    CHOOSE c \in Present(st) :
        \A d \in Present(st) : st[c] > st[d] \/ (st[c] = st[d] /\ c <= d)

CountOf(d, c) == Cardinality({i \in 1..Len(d.y) : d.y[i] = c})

-----------------------------------------------------------------------------
(* __init__ : binding of the caller's keyword arguments, and the           *)
(* construction of the base sampler and of the two collaborators.          *)

\* The named parameters of SMOTEENN.__init__ and their defaults.
Params ==
    {"ratio", "random_state", "verbose", "k", "m", "out_step", "kind_smote",
     "nn_method", "size_ngh", "kind_enn", "n_jobs"}

Default ==
    [ratio |-> "auto", random_state |-> "None", verbose |-> TRUE, k |-> 5,
     m |-> 10, out_step |-> "0.5", kind_smote |-> "regular",
     nn_method |-> "exact", size_ngh |-> 3, kind_enn |-> "all", n_jobs |-> -1]

\* The value a named parameter is bound to by a call SMOTEENN(**args).
Bound(args, p) == IF p \in DOMAIN args THEN args[p] ELSE Default[p]

\* **kwargs: the keyword arguments that name no parameter of __init__.
Kwargs(args) == [n \in (DOMAIN args) \ Params |-> args[n]]

\* super(SMOTEENN, self).__init__(ratio=, random_state=, verbose=)
BaseArgs(args) ==
    [ratio |-> Bound(args, "ratio"),
     random_state |-> Bound(args, "random_state"),
     verbose |-> Bound(args, "verbose")]

\* A variant of SmoteArgs that leaves ratio to SMOTE's default.
SmoteArgs_DefaultRatio(args) ==
    [ratio |-> Default.ratio,
     random_state |-> Bound(args, "random_state"),
     verbose |-> Bound(args, "verbose"),
     k |-> Bound(args, "k"),
     m |-> Bound(args, "m"),
     out_step |-> Bound(args, "out_step"),
     kind |-> Bound(args, "kind_smote"),
     nn_method |-> Bound(args, "nn_method"),
     n_jobs |-> Bound(args, "n_jobs")] @@ Kwargs(args)

\* SMOTE(ratio=, random_state=, verbose=, k=, m=, out_step=, kind=kind_smote,
\*       nn_method=, n_jobs=, **kwargs)
SmoteArgs(args) ==
    [ratio |-> Bound(args, "ratio"),
     random_state |-> Bound(args, "random_state"),
     verbose |-> Bound(args, "verbose"),
     k |-> Bound(args, "k"),
     m |-> Bound(args, "m"),
     out_step |-> Bound(args, "out_step"),
     kind |-> Bound(args, "kind_smote"),
     nn_method |-> Bound(args, "nn_method"),
     n_jobs |-> Bound(args, "n_jobs")] @@ Kwargs(args)

\* A variant of EnnArgs that leaves n_jobs to ENN's default.
EnnArgs_DefaultJobs(args) ==
    [random_state |-> Bound(args, "random_state"),
     verbose |-> Bound(args, "verbose"),
     size_ngh |-> Bound(args, "size_ngh"),
     kind_sel |-> Bound(args, "kind_enn"),
     n_jobs |-> Default.n_jobs]

\* EditedNearestNeighbours(random_state=, verbose=, size_ngh=,
\*                         kind_sel=kind_enn, n_jobs=)
EnnArgs(args) ==
    [random_state |-> Bound(args, "random_state"),
     verbose |-> Bound(args, "verbose"),
     size_ngh |-> Bound(args, "size_ngh"),
     kind_sel |-> Bound(args, "kind_enn"),
     n_jobs |-> Bound(args, "n_jobs")]

\* The keywords a caller may pass: the parameters, and two that name no
\* parameter of __init__ (kind_sel is the name the docstring gives to the ENN
\* strategy, kernel an extra keyword meant for SMOTE).
Keywords == Params \cup {"kind_sel", "kernel"}

\* A value other than the default, for each keyword.
Other ==
    [ratio |-> "0.5", random_state |-> "42", verbose |-> FALSE, k |-> 3,
     m |-> 7, out_step |-> "0.3", kind_smote |-> "svm",
     nn_method |-> "approximate", size_ngh |-> 1, kind_enn |-> "mode",
     n_jobs |-> 1, kind_sel |-> "mode", kernel |-> "rbf"]

\* The constructor calls: at most MaxKeywords keywords, each with its other
\* value; kind_sel is passed as 'mode' and as 'all'.
CtorCalls ==
    LET plain == {[kw \in K |-> Other[kw]] :
                    K \in {K \in SUBSET Keywords : Cardinality(K) <= MaxKeywords}}
    IN  plain \cup
        {[kw \in DOMAIN c |-> IF kw = "kind_sel" THEN "all" ELSE c[kw]] :
            c \in {c \in plain : "kind_sel" \in DOMAIN c}}

\* The constructor calls that change what fit and transform compute.
PipelineCalls == {c \in CtorCalls : DOMAIN c \subseteq {"ratio", "size_ngh"}}

-----------------------------------------------------------------------------
(* The collaborators.                                                      *)

Unfitted == <<>>
Fitted(o) == o.stats_c_ # Unfitted
Stats(o) == o.stats_c_[1]

\* check_X_y: X and y must have the same, non-zero, number of samples; the
\* result is the pair converted to arrays.
Accepts(inp) == Len(inp.X) = Len(inp.y) /\ Len(inp.X) >= 1

check_X_y(inp) == [kind |-> "ndarray", X |-> inp.X, y |-> inp.y]

\* fit of a sampler (BaseSampler, SMOTE, ENN): "find the classes statistics".
FitStats(o, d) == [o EXCEPT !.stats_c_ = <<Counts(d.y)>>]

\* ratio: 'auto' balances (1/1); a number is minority over majority (the
\* number of the model is 0.5, that is 1/2).
RatioNum(r) == 1
RatioDen(r) == IF r = "auto" THEN 1 ELSE 2

\* SMOTE: the number of synthetic minority samples the ratio asks for.
NumSynth(o) ==
    LET st == Stats(o)
        want == (RatioNum(o.args.ratio) * st[MajC(st)]) \div RatioDen(o.args.ratio)
    IN  IF want > st[MinC(st)] THEN want - st[MinC(st)] ELSE 0

MinorityX(o, d) == {d.X[i] : i \in {j \in 1..Len(d.X) : d.y[j] = MinC(Stats(o))}}

\* SMOTE.transform needs the statistics found by fit and, to interpolate, a
\* minority sample in the data.
CanSample(o, d) ==
    /\ Fitted(o)
    /\ NumSynth(o) > 0 => MinorityX(o, d) # {}

\* The synthetic feature values SMOTE may draw: each lies between two
\* existing minority samples.
Draws(o, d) ==
    IF CanSample(o, d) /\ NumSynth(o) > 0
    THEN LET M == MinorityX(o, d)
             lo == CHOOSE a \in M : \A b \in M : a <= b
             hi == CHOOSE a \in M : \A b \in M : a >= b
         IN  [1..NumSynth(o) -> lo..hi]
    ELSE {<<>>}

\* SMOTE.transform: the data followed by the synthetic minority samples.
SMOTE_transform(o, d, draw) ==
    [kind |-> "ndarray",
     X |-> d.X \o draw,
     y |-> d.y \o [i \in 1..Len(draw) |-> MinC(Stats(o))]]

\* ENN: the size_ngh nearest other samples of sample i (the first of equals).
Dist(d, i, j) == IF d.X[i] >= d.X[j] THEN d.X[i] - d.X[j] ELSE d.X[j] - d.X[i]

Closer(d, i, j, l) ==
    \/ Dist(d, i, j) < Dist(d, i, l)
    \/ Dist(d, i, j) = Dist(d, i, l) /\ j < l

Ngh(d, i, size) ==
    LET others == (1..Len(d.X)) \ {i}
    IN  {j \in others : Cardinality({l \in others : Closer(d, i, l, j)}) < size}

Votes(d, N, c) == Cardinality({j \in N : d.y[j] = c})

\* kind_sel: with 'all' every neighbour has the label of the sample, with
\* 'mode' the most frequent label of the neighbours is the label of the sample.
Agrees(d, i, size, kind_sel) ==
    LET N == Ngh(d, i, size)
    IN  IF kind_sel = "all"
        THEN \A j \in N : d.y[j] = d.y[i]
        ELSE \A c \in Labels :
                \/ Votes(d, N, d.y[i]) > Votes(d, N, c)
                \/ Votes(d, N, d.y[i]) = Votes(d, N, c) /\ d.y[i] <= c

Nth(S, k) == CHOOSE i \in S : Cardinality({j \in S : j < i}) = k - 1

\* ENN.fit_transform: the samples that agree with their neighbours, in order.
ENN_fit_transform(o, d) ==
    LET K == {i \in 1..Len(d.X) : Agrees(d, i, o.args.size_ngh, o.args.kind_sel)}
    IN  [kind |-> "ndarray",
         X |-> [k \in 1..Cardinality(K) |-> d.X[Nth(K, k)]],
         y |-> [k \in 1..Cardinality(K) |-> d.y[Nth(K, k)]]]

-----------------------------------------------------------------------------
(* The object after construction.                                          *)

Returned == [status |-> "returned", by |-> "none"]
Raised(callee) == [status |-> "raised", by |-> callee]

Call(callee, arg, raised, res) ==
    [callee |-> callee, arg |-> arg, raised |-> raised, res |-> res]

Constructed(callset) ==
    /\ ctor \in callset
    /\ self = [args |-> BaseArgs(ctor), stats_c_ |-> Unfitted]
    /\ sm = [args |-> SmoteArgs(ctor), stats_c_ |-> Unfitted]
    /\ enn = [args |-> EnnArgs(ctor), stats_c_ |-> Unfitted]
    /\ op = "init"
    /\ given = NoData
    /\ calls = <<>>
    /\ outcome = Returned
    /\ ret_obj = "none"
    /\ ret_data = NoData
    /\ ncalls = 0

Init == Constructed(PipelineCalls)

InitCtor == Constructed(CtorCalls)

-----------------------------------------------------------------------------
(* fit(X, y)                                                               *)

Classes(d) == Present(Counts(d.y))

\* A variant of ValidationRaises without the call of check_X_y.
ValidationRaises_Never(inp) == FALSE

\* A variant of ValidationRaises that also refuses more than two classes.
ValidationRaises_MultiClass(inp) == ~Accepts(inp) \/ Cardinality(Classes(inp)) > 2

\* X, y = check_X_y(X, y) is the first statement of fit and of transform: the
\* method ends there when check_X_y raises.
ValidationRaises(inp) == ~Accepts(inp)

\* A variant of Aborts in which every call sits in a try whose handler passes.
Aborts_Swallowed(c) == FALSE

\* No call of fit or transform is inside a try: a call that raises ends the
\* method with its error.
Aborts(c) == c.raised

\* X, y = check_X_y(X, y): the names X and y are rebound to the validated pair.
FitArg(inp) == check_X_y(inp)

\* A variant of FitReturn: return self.sm.fit(X, y).
FitReturn_Sm == "sm"

\* return self
FitReturn == "self"

\* The body of fit: what it calls, how it ends and what it leaves behind.
\* raises names the call that raises ("none": no call does); partial tells
\* whether the raising call had stored its statistics before it raised.
FitBody(inp, raises, partial) ==
    IF ValidationRaises(inp)
    THEN [calls |-> <<>>, outcome |-> Raised("check_X_y"), ret_obj |-> "none",
          self |-> self, sm |-> sm]
    ELSE
    LET v == FitArg(inp)
        c1 == Call("base.fit", v, raises = "base.fit", NoData)
        self1 == IF c1.raised /\ ~partial THEN self ELSE FitStats(self, v)
    IN  IF Aborts(c1)
        THEN [calls |-> <<c1>>, outcome |-> Raised("base.fit"),
              ret_obj |-> "none", self |-> self1, sm |-> sm]
        ELSE
        LET c2 == Call("sm.fit", v, raises = "sm.fit", NoData)
            sm1 == IF c2.raised /\ ~partial THEN sm ELSE FitStats(sm, v)
        IN  IF Aborts(c2)
            THEN [calls |-> <<c1, c2>>, outcome |-> Raised("sm.fit"),
                  ret_obj |-> "none", self |-> self1, sm |-> sm1]
            ELSE [calls |-> <<c1, c2>>, outcome |-> Returned,
                  ret_obj |-> FitReturn, self |-> self1, sm |-> sm1]

\* A variant of fit that also fits ENN on the validated input.
fit_FitsEnn(inp, raises, partial) ==
    LET r == FitBody(inp, raises, partial)
        done == r.outcome = Returned
        v == FitArg(inp)
    IN  /\ op' = "fit"
        /\ given' = inp
        /\ calls' = IF done THEN r.calls \o <<Call("enn.fit", v, FALSE, NoData)>>
                    ELSE r.calls
        /\ outcome' = r.outcome
        /\ ret_obj' = r.ret_obj
        /\ ret_data' = NoData
        /\ self' = r.self
        /\ sm' = r.sm
        /\ enn' = IF done THEN FitStats(enn, v) ELSE enn
        /\ ncalls' = ncalls + 1
        /\ UNCHANGED ctor

fit(inp, raises, partial) ==
    LET r == FitBody(inp, raises, partial)
    IN  /\ op' = "fit"
        /\ given' = inp
        /\ calls' = r.calls
        /\ outcome' = r.outcome
        /\ ret_obj' = r.ret_obj
        /\ ret_data' = NoData
        /\ self' = r.self
        /\ sm' = r.sm
        /\ ncalls' = ncalls + 1
        /\ UNCHANGED <<ctor, enn>>

-----------------------------------------------------------------------------
(* transform(X, y)                                                         *)

\* X, y = check_X_y(X, y)
TransformArg(inp) == check_X_y(inp)

\* A variant of EnnInput in which SMOTE's result is bound to other names and
\* ENN is given the validated input.
EnnInput_Validated(v, smOut) == v

\* X, y = self.sm.transform(X, y): X and y are rebound to SMOTE's result, and
\* that is what self.enn.fit_transform(X, y) is given.
EnnInput(v, smOut) == smOut

\* return self.enn.fit_transform(X, y)
TransformReturn(ennOut) == ennOut

TransformBody(inp, raises, partial, draw) ==
    IF ValidationRaises(inp)
    THEN [calls |-> <<>>, outcome |-> Raised("check_X_y"), ret_data |-> NoData,
          enn |-> enn]
    ELSE
    LET v == TransformArg(inp)
        c1 == Call("base.transform", v, raises = "base.transform", NoData)
    IN  IF Aborts(c1)
        THEN [calls |-> <<c1>>, outcome |-> Raised("base.transform"),
              ret_data |-> NoData, enn |-> enn]
        ELSE
        LET smRaises == raises = "sm.transform" \/ ~CanSample(sm, v)
            smOut == IF smRaises THEN NoData ELSE SMOTE_transform(sm, v, draw)
            c2 == Call("sm.transform", v, smRaises, smOut)
        IN  IF Aborts(c2)
            THEN [calls |-> <<c1, c2>>, outcome |-> Raised("sm.transform"),
                  ret_data |-> NoData, enn |-> enn]
            ELSE
            LET d == EnnInput(v, smOut)
                ennRaises == raises = "enn.fit_transform"
                ennOut == IF ennRaises THEN NoData ELSE ENN_fit_transform(enn, d)
                c3 == Call("enn.fit_transform", d, ennRaises, ennOut)
                enn1 == IF ennRaises /\ ~partial THEN enn ELSE FitStats(enn, d)
            IN  IF Aborts(c3)
                THEN [calls |-> <<c1, c2, c3>>,
                      outcome |-> Raised("enn.fit_transform"),
                      ret_data |-> NoData, enn |-> enn1]
                ELSE [calls |-> <<c1, c2, c3>>, outcome |-> Returned,
                      ret_data |-> TransformReturn(ennOut), enn |-> enn1]

transform(inp, raises, partial, draw) ==
    LET r == TransformBody(inp, raises, partial, draw)
    IN  /\ op' = "transform"
        /\ given' = inp
        /\ calls' = r.calls
        /\ outcome' = r.outcome
        /\ ret_obj' = "none"
        /\ ret_data' = r.ret_data
        /\ enn' = r.enn
        /\ ncalls' = ncalls + 1
        /\ UNCHANGED <<ctor, self, sm>>

FitRaises == {"none", "base.fit", "sm.fit"}
TransformRaises == {"none", "base.transform", "sm.transform", "enn.fit_transform"}

\* A call that does not raise stores nothing before raising.
Partials(raises) == IF raises = "none" THEN {FALSE} ELSE BOOLEAN

\* A caller calls fit, or transform, on the object.
FitOn(inputs) ==
    /\ ncalls < MaxCalls
    /\ \E inp \in inputs, raises \in FitRaises :
          \E partial \in Partials(raises) : fit(inp, raises, partial)

TransformOn(inputs) ==
    /\ ncalls < MaxCalls
    /\ \E inp \in inputs, raises \in TransformRaises :
          \E partial \in Partials(raises),
             draw \in (IF Accepts(inp) THEN Draws(sm, check_X_y(inp)) ELSE {<<>>}) :
              transform(inp, raises, partial, draw)

Next == FitOn(Inputs) \/ TransformOn(Inputs)

Spec == Init /\ [][Next]_vars

\* The specification of the constructor: every constructor call, followed by
\* calls of fit and transform on at most one sample.
CtorInputs == {inp \in Inputs : Len(inp.X) <= 1}

NextCtor == FitOn(CtorInputs) \/ TransformOn(CtorInputs)

SpecCtor == InitCtor /\ [][NextCtor]_vars

-----------------------------------------------------------------------------
(* Properties.                                                             *)

Ended(method) == op = method /\ outcome.status = "returned"
Callees == [i \in 1..Len(calls) |-> calls[i].callee]
NoCallRaised == \A i \in 1..Len(calls) : ~calls[i].raised

\* The value the caller's keywords give to a parameter of __init__.
Passed(p) == IF p \in DOMAIN ctor THEN ctor[p] ELSE Default[p]

\* C1: a transform that returns has given the validated (X, y) to
\* SMOTE.transform, SMOTE's result, as it is, to ENN.fit_transform, and
\* returns ENN's result of that, as it is.
C1_TransformIsEnnOfSmote ==
    Ended("transform") =>
        /\ Callees = <<"base.transform", "sm.transform", "enn.fit_transform">>
        /\ calls[2].arg = check_X_y(given)
        /\ calls[2].res \in
              {SMOTE_transform(sm, check_X_y(given), draw) :
                  draw \in Draws(sm, check_X_y(given))}
        /\ calls[3].arg = calls[2].res
        /\ calls[3].res = ENN_fit_transform(enn, calls[2].res)
        /\ ret_data = calls[3].res

\* C1 witness: a transform returned, SMOTE had added a sample and ENN had
\* removed some of them, but not all.
C1_Witness ==
    /\ Ended("transform")
    /\ Len(calls[2].res.y) > Len(given.y)
    /\ Len(ret_data.y) < Len(calls[2].res.y)
    /\ Len(ret_data.y) > 0

\* C3: a fit or a transform whose input check_X_y refuses ends with the error
\* of check_X_y, has called no method of the base sampler, of SMOTE or of
\* ENN, and leaves the sampler and both collaborators as they were.
C3_ValidationFirst ==
    [][(ncalls' # ncalls /\ ~Accepts(given')) =>
          /\ outcome' = Raised("check_X_y")
          /\ calls' = <<>>
          /\ ret_obj' = "none" /\ ret_data' = NoData
          /\ self' = self /\ sm' = sm /\ enn' = enn]_vars

\* C3 witness: a transform of a non-empty X with a label missing was refused
\* on an object whose sampler, SMOTE and ENN were all fitted.
C3_Witness ==
    /\ op = "transform"
    /\ outcome = Raised("check_X_y")
    /\ Len(given.X) > Len(given.y)
    /\ Fitted(self) /\ Fitted(sm) /\ Fitted(enn)

\* C4: a fit that returns returns the object it was called on, after the fit
\* of the base sampler and then the fit of SMOTE ran on the validated (X, y).
C4_FitReturnsSelf ==
    Ended("fit") =>
        /\ ret_obj = "self"
        /\ calls = <<Call("base.fit", check_X_y(given), FALSE, NoData),
                     Call("sm.fit", check_X_y(given), FALSE, NoData)>>
        /\ Fitted(self) /\ Stats(self) = Counts(given.y)
        /\ Fitted(sm) /\ Stats(sm) = Counts(given.y)

\* C4 witness: a fit on two classes returned on an object fitted before on
\* other data.
C4_Witness ==
    /\ Ended("fit")
    /\ ncalls >= 2
    /\ Cardinality(Classes(given)) = 2

\* C5 (as claimed): a value passed as kind_sel is the kind_sel ENN is built
\* with, and no other collaborator is given it.
C5_KindSelReachesEnn ==
    "kind_sel" \in DOMAIN ctor =>
        /\ enn.args.kind_sel = ctor.kind_sel
        /\ "kind_sel" \notin DOMAIN sm.args
        /\ "kind_sel" \notin DOMAIN self.args

\* C8: SMOTE is built with ratio, random_state, verbose, k, m, out_step,
\* kind_smote (as kind), nn_method, n_jobs and every extra keyword; ENN with
\* random_state, verbose, size_ngh, kind_enn (as kind_sel) and n_jobs and
\* nothing else; the base sampler with ratio, random_state and verbose.
C8_Forwarding ==
    /\ \A p \in {"ratio", "random_state", "verbose", "k", "m", "out_step",
                 "nn_method", "n_jobs"} : sm.args[p] = Passed(p)
    /\ sm.args.kind = Passed("kind_smote")
    /\ \A kw \in (DOMAIN ctor) \ Params :
          kw \in DOMAIN sm.args /\ sm.args[kw] = ctor[kw]
    /\ DOMAIN sm.args =
          {"ratio", "random_state", "verbose", "k", "m", "out_step", "kind",
           "nn_method", "n_jobs"} \cup ((DOMAIN ctor) \ Params)
    /\ \A p \in {"random_state", "verbose", "size_ngh", "n_jobs"} :
          enn.args[p] = Passed(p)
    /\ enn.args.kind_sel = Passed("kind_enn")
    /\ DOMAIN enn.args =
          {"random_state", "verbose", "size_ngh", "kind_sel", "n_jobs"}
    /\ self.args =
          [ratio |-> Passed("ratio"), random_state |-> Passed("random_state"),
           verbose |-> Passed("verbose")]
    /\ sm.args.random_state = enn.args.random_state
    /\ sm.args.verbose = enn.args.verbose
    /\ sm.args.n_jobs = enn.args.n_jobs

\* C8 witness: the object was built with n_jobs and an extra keyword, and a
\* method has been called on it since.
C8_Witness ==
    /\ DOMAIN ctor = {"n_jobs", "kernel"}
    /\ ncalls > 0

\* C10: a call of the base sampler or of a collaborator that raises is the
\* last call of the method, the method ends with that call's error and
\* returns nothing; so SMOTE.fit is not called after a failing base fit, and
\* ENN.fit_transform is not called after a failing base transform or
\* SMOTE.transform.
C10_ErrorsPropagate ==
    /\ \A i \in 1..Len(calls) :
          calls[i].raised =>
              /\ i = Len(calls)
              /\ outcome = Raised(calls[i].callee)
              /\ ret_obj = "none" /\ ret_data = NoData
    /\ (outcome.status = "raised" /\ outcome.by # "check_X_y") =>
          /\ calls # <<>>
          /\ calls[Len(calls)].raised
          /\ calls[Len(calls)].callee = outcome.by
    /\ outcome = Raised("base.fit") => Callees = <<"base.fit">>
    /\ outcome = Raised("base.transform") => Callees = <<"base.transform">>
    /\ outcome = Raised("sm.transform") =>
          Callees = <<"base.transform", "sm.transform">>

\* C10 witness: SMOTE.transform raised on a fitted object, on data with a
\* minority sample.
C10_Witness ==
    /\ outcome = Raised("sm.transform")
    /\ CanSample(sm, check_X_y(given))

\* The proportion the ratio asks for, between the minority and the majority
\* class that fit found: as many of each with 'auto', else minority over
\* majority equal to the ratio.
Proportioned(d, st, r) ==
    CountOf(d, MinC(st)) * RatioDen(r) = CountOf(d, MajC(st)) * RatioNum(r)

\* A transform returned, on the two-class data the object was fitted on, and
\* SMOTE's result had the proportion the ratio asks for.
OverSampledToRatio ==
    /\ Ended("transform")
    /\ Len(calls) = 3
    /\ Cardinality(Classes(given)) = 2
    /\ Fitted(sm) /\ Stats(sm) = Counts(given.y)
    /\ Proportioned(calls[2].res, Stats(sm), Passed("ratio"))

MultiClass == op # "init" /\ Cardinality(Classes(given)) >= 3

EnnCalledOnSmoteResult(cs) ==
    /\ Len(cs) = 3
    /\ cs[3].callee = "enn.fit_transform"
    /\ cs[3].arg = cs[2].res

\* C9 (as claimed): fit calls no method of ENN and leaves it as it is; ENN
\* changes only in a transform that returns, which fits it on SMOTE's result
\* of that call.
C9_EnnOnlyBySuccessfulTransform ==
    [][ncalls' # ncalls =>
          /\ op' = "fit" =>
                /\ enn' = enn
                /\ \A i \in 1..Len(calls') : calls'[i].callee \in {"base.fit", "sm.fit"}
          /\ enn' # enn => (op' = "transform" /\ outcome'.status = "returned")
          /\ (op' = "transform" /\ outcome'.status = "returned") =>
                /\ EnnCalledOnSmoteResult(calls')
                /\ enn' = FitStats(enn, calls'[2].res)]_vars

\* C9 (amended): fit calls no method of ENN and leaves it as it is; ENN
\* changes only in a transform that called ENN.fit_transform, whether that
\* call returned or raised, and is then fitted on SMOTE's result of that
\* call; a transform that returns always fits it so.
C9_EnnOnlyByTransform ==
    [][ncalls' # ncalls =>
          /\ op' = "fit" =>
                /\ enn' = enn
                /\ \A i \in 1..Len(calls') : calls'[i].callee \in {"base.fit", "sm.fit"}
          /\ enn' # enn =>
                /\ op' = "transform"
                /\ EnnCalledOnSmoteResult(calls')
                /\ enn' = FitStats(enn, calls'[2].res)
          /\ (op' = "transform" /\ outcome'.status = "returned") =>
                /\ EnnCalledOnSmoteResult(calls')
                /\ enn' = FitStats(enn, calls'[2].res)]_vars

\* C9 witness: a fit returned on an object whose ENN a transform had fitted,
\* and ENN holds statistics other than those of the data given to fit.
C9_Witness ==
    /\ Ended("fit")
    /\ Fitted(enn)
    /\ Stats(enn) # Counts(given.y)

====
